---- MODULE Spec2Model ----
(***************************************************************************)
(* once_io: bounded, nestable windows (Chunk) over a seekable byte stream. *)
(*                                                                         *)
(* The underlying stream is std::io::Cursor, the stream every test of the  *)
(* crate uses, in its two Write flavours: a fixed-capacity byte slice and  *)
(* a growable Vec<u8>.  A Chunk owns its inner stream, so the state is a   *)
(* stack: the Cursor at level 0 and chunks[k] wrapping level k-1.  Only    *)
(* the outermost chunk can be driven until into_inner gives the inner      *)
(* stream back.                                                            *)
(*                                                                         *)
(* u64 and i64 are modelled with WordBits bits instead of 64 (TLC's        *)
(* integers have 32 bits); all arithmetic of the code that is overflow     *)
(* checked is overflow checked here against that width.                    *)
(*                                                                         *)
(* A call and its return are two steps: Do... runs the whole operation and *)
(* records the call (op), its result (res) and the stream before it (pre); *)
(* Return is the caller taking the result before it calls again.           *)
(***************************************************************************)
EXTENDS Integers, Sequences, FiniteSets, TLC

\* ---------------------------------------------------------------- bounds
WordBits == 5   \* modelled width of u64 / i64
MaxLen   == 2   \* longest underlying buffer at construction
MaxBuf   == 3   \* longest caller buffer passed to read / write
MaxLimit == 2   \* largest ordinary limit passed to chunk()
MaxSeek  == 2   \* largest ordinary seek offset

MaxData == MaxLen + 1   \* a Vec-backed cursor grows by at most one byte
Levels  == {1, 2}       \* a chunk over the cursor and a chunk nested in it

U64_MAX == 2^WordBits - 1
I64_MAX == 2^(WordBits - 1) - 1
I64_MIN == -(2^(WordBits - 1))

ZeroByte  == 0   \* the tests' underlying buffers are zero filled
WriteByte == 1   \* the tests write buffers of ones
FillByte  == WriteByte + 1   \* a read buffer's content before the call

Min(a, b) == IF a <= b THEN a ELSE b

\* Option<T>: None is the empty sequence, Some(v) a one-element sequence.
None    == << >>
Some(v) == << v >>

\* Mutant of checked_add: the sum wraps instead of being refused.
checked_add_wrapping(a, b) == Some((a + b) % (U64_MAX + 1))

\* u64::checked_add
checked_add(a, b) == IF a + b > U64_MAX THEN None ELSE Some(a + b)

\* u64::checked_add_signed
checked_add_signed(a, d) ==
    IF a + d < 0 \/ a + d > U64_MAX THEN None ELSE Some(a + d)

\* u64::checked_sub
checked_sub(a, b) == IF a < b THEN None ELSE Some(a - b)

\* u64 `-` of a release build (a debug build panics on underflow)
wrapping_sub(a, b) == (a - b) % (U64_MAX + 1)

\* std::io::SeekFrom
SeekFrom(whence, off) == [whence |-> whence, off |-> off]

\* io::Result<u64> together with the stream state the call leaves behind.
\* buf is the caller's buffer after the call, acc the set of absolute byte
\* positions of the underlying buffer the call read or wrote.
Ok(s, v, buf, acc) ==
    [s |-> s, ok |-> TRUE, v |-> v, err |-> "", buf |-> buf, acc |-> acc]
Err(s, kind) ==
    [s |-> s, ok |-> FALSE, v |-> 0, err |-> kind, buf |-> << >>, acc |-> {}]

\* ------------------------------------------------- std::io::Cursor (level 0)

\* Cursor::seek: Start(n) always succeeds; End/Current use checked_add_signed.
CursorSeek(s, from) ==
    LET base   == IF from.whence = "End" THEN Len(s.data) ELSE s.cpos
        target == IF from.whence = "Start" THEN Some(from.off)
                  ELSE checked_add_signed(base, from.off)
    IN  IF target = None THEN Err(s, "InvalidInput")
        ELSE Ok([s EXCEPT !.cpos = target[1]], target[1], << >>, {})

\* Cursor::read: copies from min(pos, len) and advances by the count copied.
CursorRead(s, buf) ==
    LET p == Min(s.cpos, Len(s.data))
        n == Min(Len(buf), Len(s.data) - p)
    IN  Ok([s EXCEPT !.cpos = s.cpos + n], n,
           SubSeq(s.data, p + 1, p + n) \o SubSeq(buf, n + 1, Len(buf)),
           p .. (p + n - 1))

\* Cursor<&mut [u8]>::write: never grows, a write at the end accepts 0 bytes.
SliceWrite(s, buf) ==
    LET p   == Min(s.cpos, Len(s.data))
        amt == Min(Len(buf), Len(s.data) - p)
    IN  Ok([s EXCEPT !.cpos = s.cpos + amt,
                     !.data = SubSeq(s.data, 1, p) \o SubSeq(buf, 1, amt)
                              \o SubSeq(s.data, p + amt + 1, Len(s.data))],
           amt, buf, p .. (p + amt - 1))

\* Cursor<Vec<u8>>::write: zero-pads up to pos, then overwrites and extends.
VecWrite(s, buf) ==
    LET len    == Len(s.data)
        padded == IF s.cpos > len
                  THEN s.data \o [i \in 1 .. (s.cpos - len) |-> ZeroByte]
                  ELSE s.data
        n      == Len(buf)
    IN  Ok([s EXCEPT !.cpos = s.cpos + n,
                     !.data = SubSeq(padded, 1, s.cpos) \o buf
                              \o SubSeq(padded, s.cpos + n + 1, Len(padded))],
           n, buf, Min(len, s.cpos) .. (s.cpos + n - 1))

CursorWrite(s, buf) ==
    IF s.kind = "growable" THEN VecWrite(s, buf) ELSE SliceWrite(s, buf)

\* Cursor::flush: Ok(()) for both flavours
CursorFlush(s) == Ok(s, 0, << >>, {})

\* ------------------------------------------- the stream T a chunk wraps
\* self.inner at level 0 is the cursor, or a cursor behind a device whose
\* next fail_next calls of read, write or flush report the error `fault`
\* and transfer nothing (a stream state without these fields never fails).

Failing(s) == "fail_next" \in DOMAIN s /\ s.fail_next > 0

Fail(s) == Err([s EXCEPT !.fail_next = @ - 1], s.fault)

\* self.inner.read(buf) at level 0
inner_read(s, buf) == IF Failing(s) THEN Fail(s) ELSE CursorRead(s, buf)

\* self.inner.write(buf) at level 0
inner_write(s, buf) == IF Failing(s) THEN Fail(s) ELSE CursorWrite(s, buf)

\* self.inner.flush() at level 0
inner_flush(s) == IF Failing(s) THEN Fail(s) ELSE CursorFlush(s)

\* ------------------------------------------------------------------ Chunk

\* Stream::chunk: wraps the stream at level Len(chunks).  `start` is a
\* history field (the code stores no start): the inner stream's position at
\* the moment of creation.
NewChunk(limit, at) == [pos |-> 0, limit |-> limit, start |-> at]

\* Mutant of remainder_len: the limit is not consulted.
remainder_len_unbounded(c) == U64_MAX

\* Mutant of remainder_len: a limit of u64::MAX is treated as an ordinary limit.
remainder_len_no_sentinel(c) ==
    IF c.limit = None THEN U64_MAX
    ELSE LET d == checked_sub(c.limit[1], c.pos)
         IN  IF d = None THEN 0 ELSE d[1]

\* Chunk::remainder_len
remainder_len(c) ==
    IF c.limit = None THEN U64_MAX
    ELSE IF c.limit[1] = U64_MAX THEN U64_MAX
    ELSE LET d == checked_sub(c.limit[1], c.pos)
         IN  IF d = None THEN 0 ELSE d[1]

\* stream_position() of the stream at level k: Cursor::position for the
\* cursor, Chunk::stream_position (Ok(self.pos)) for a chunk.
stream_position(s, k) == IF k = 0 THEN s.cpos ELSE s.chunks[k].pos

\* Chunk::start_position of the chunk at level k
start_position(s, k) ==
    wrapping_sub(stream_position(s, k - 1), s.chunks[k].pos)

\* Mutant of in_window: positions before the window's start are accepted.
in_window_before_start(v, start, end) == v <= end

\* Mutant of in_window: the end test is off by one.
in_window_past_end(v, start, end) == v >= start /\ v <= end + 1

\* the guard of Chunk::seek's accepting match arm
in_window(v, start, end) == v >= start /\ v <= end

RECURSIVE seek(_, _, _)

\* Mutant of end_position: the inner stream is left at its end.
end_position_no_rollback(s, k) ==
    LET limit == s.chunks[k].limit
        sum   == IF limit = None THEN None
                 ELSE checked_add(start_position(s, k), limit[1])
        e     == seek(s, k - 1, SeekFrom("End", 0))
    IN  IF ~e.ok THEN e
        ELSE Ok(e.s, IF sum = None THEN e.v ELSE Min(sum[1], e.v), << >>, {})

\* Mutant of end_position: the inner stream is put back at the window's
\* start, not where it was.
end_position_rollback_to_start(s, k) ==
    LET limit == s.chunks[k].limit
        start == start_position(s, k)
        sum   == IF limit = None THEN None ELSE checked_add(start, limit[1])
        e     == seek(s, k - 1, SeekFrom("End", 0))
    IN  IF ~e.ok THEN e
        ELSE LET endp == IF sum = None THEN e.v ELSE Min(sum[1], e.v)
                 r    == seek(e.s, k - 1, SeekFrom("Start", start))
             IN  IF ~r.ok THEN r ELSE Ok(r.s, endp, << >>, {})

\* Mutant of end_position: the limit is not consulted.
end_position_ignores_limit(s, k) ==
    LET rollback_position == stream_position(s, k - 1)
        e == seek(s, k - 1, SeekFrom("End", 0))
    IN  IF ~e.ok THEN e
        ELSE LET r == seek(e.s, k - 1, SeekFrom("Start", rollback_position))
             IN  IF ~r.ok THEN r ELSE Ok(r.s, e.v, << >>, {})

\* Mutant of end_position: start + limit is not clamped to the inner length.
end_position_unclamped(s, k) ==
    LET rollback_position == stream_position(s, k - 1)
        limit == s.chunks[k].limit
        sum   == IF limit = None THEN None
                 ELSE checked_add(start_position(s, k), limit[1])
        e     == seek(s, k - 1, SeekFrom("End", 0))
    IN  IF ~e.ok THEN e
        ELSE LET endp == IF sum = None THEN e.v ELSE sum[1]
                 r    == seek(e.s, k - 1, SeekFrom("Start", rollback_position))
             IN  IF ~r.ok THEN r ELSE Ok(r.s, endp, << >>, {})

\* Chunk::end_position of the chunk at level k: probes the inner length by
\* seeking the inner stream to its end and back.
end_position(s, k) ==
    LET rollback_position == stream_position(s, k - 1)
        limit == s.chunks[k].limit
        sum   == IF limit = None THEN None
                 ELSE checked_add(start_position(s, k), limit[1])
        e     == seek(s, k - 1, SeekFrom("End", 0))
    IN  IF ~e.ok THEN e
        ELSE LET endp == IF sum = None THEN e.v ELSE Min(sum[1], e.v)
                 r    == seek(e.s, k - 1, SeekFrom("Start", rollback_position))
             IN  IF ~r.ok THEN r ELSE Ok(r.s, endp, << >>, {})

\* Mutant of seek: pos is set to the inner position, start not subtracted.
seek_pos_absolute(s, k, from) ==
    IF k = 0 THEN CursorSeek(s, from)
    ELSE
    LET start == start_position(s, k)
        e     == end_position(s, k)
    IN  IF ~e.ok THEN e
        ELSE
        LET final == CASE from.whence = "Current" ->
                            checked_add_signed(stream_position(e.s, k - 1), from.off)
                       [] from.whence = "End" -> checked_add_signed(e.v, from.off)
                       [] OTHER -> checked_add(start, from.off)
        IN  IF final # None /\ in_window(final[1], start, e.v)
            THEN LET r == seek(e.s, k - 1, SeekFrom("Start", final[1]))
                 IN  IF ~r.ok THEN r
                     ELSE Ok([r.s EXCEPT !.chunks[k].pos = r.v], r.v, << >>, {})
            ELSE Err(e.s, "InvalidInput")

\* Chunk::seek of the chunk at level k (Cursor::seek at level 0)
seek(s, k, from) ==
    IF k = 0 THEN CursorSeek(s, from)
    ELSE
    LET start == start_position(s, k)
        e     == end_position(s, k)
    IN  IF ~e.ok THEN e
        ELSE
        LET final == CASE from.whence = "Current" ->
                            checked_add_signed(stream_position(e.s, k - 1), from.off)
                       [] from.whence = "End" -> checked_add_signed(e.v, from.off)
                       [] OTHER -> checked_add(start, from.off)
        IN  IF final # None /\ in_window(final[1], start, e.v)
            THEN LET r == seek(e.s, k - 1, SeekFrom("Start", final[1]))
                 IN  IF ~r.ok THEN r
                     ELSE LET np == wrapping_sub(r.v, start)
                          IN  Ok([r.s EXCEPT !.chunks[k].pos = np], np, << >>, {})
            ELSE Err(e.s, "InvalidInput")

RECURSIVE read(_, _, _)

\* Mutant of read: a failed read of the inner stream is tried once more.
read_retries(s, k, buf) ==
    IF k = 0 THEN inner_read(s, buf)
    ELSE
    LET max == Min(Len(buf), remainder_len(s.chunks[k]))
        r1  == read(s, k - 1, SubSeq(buf, 1, max))
        r   == IF r1.ok THEN r1 ELSE read(r1.s, k - 1, SubSeq(buf, 1, max))
    IN  IF ~r.ok THEN r
        ELSE Ok([r.s EXCEPT !.chunks[k].pos = s.chunks[k].pos + r.v], r.v,
                r.buf \o SubSeq(buf, max + 1, Len(buf)), r.acc)

\* Mutant of read: pos is not advanced by the count read.
read_pos_not_advanced(s, k, buf) ==
    IF k = 0 THEN inner_read(s, buf)
    ELSE
    LET max == Min(Len(buf), remainder_len(s.chunks[k]))
        r   == read(s, k - 1, SubSeq(buf, 1, max))
    IN  IF ~r.ok THEN r
        ELSE Ok(r.s, r.v, r.buf \o SubSeq(buf, max + 1, Len(buf)), r.acc)

\* Mutant of read: the buffer is not clamped to remainder_len.
read_unclamped(s, k, buf) ==
    IF k = 0 THEN inner_read(s, buf)
    ELSE
    LET r == read(s, k - 1, buf)
    IN  IF ~r.ok THEN r
        ELSE Ok([r.s EXCEPT !.chunks[k].pos = s.chunks[k].pos + r.v], r.v,
                r.buf, r.acc)

\* Chunk::read of the chunk at level k (Cursor::read at level 0)
read(s, k, buf) ==
    IF k = 0 THEN inner_read(s, buf)
    ELSE
    LET max == Min(Len(buf), remainder_len(s.chunks[k]))
        r   == read(s, k - 1, SubSeq(buf, 1, max))
    IN  IF ~r.ok THEN r
        ELSE Ok([r.s EXCEPT !.chunks[k].pos = s.chunks[k].pos + r.v], r.v,
                r.buf \o SubSeq(buf, max + 1, Len(buf)), r.acc)

RECURSIVE write(_, _, _)

\* Mutant of write: the buffer is not clamped to remainder_len.
write_unclamped(s, k, buf) ==
    IF k = 0 THEN inner_write(s, buf)
    ELSE
    LET r == write(s, k - 1, buf)
    IN  IF ~r.ok THEN r
        ELSE Ok([r.s EXCEPT !.chunks[k].pos = s.chunks[k].pos + r.v], r.v,
                buf, r.acc)

\* Mutant of write: pos is not advanced by the count written.
write_pos_not_advanced(s, k, buf) ==
    IF k = 0 THEN inner_write(s, buf)
    ELSE
    LET max == Min(Len(buf), remainder_len(s.chunks[k]))
        r   == write(s, k - 1, SubSeq(buf, 1, max))
    IN  IF ~r.ok THEN r ELSE Ok(r.s, r.v, buf, r.acc)

\* Chunk::write of the chunk at level k (Cursor::write at level 0)
write(s, k, buf) ==
    IF k = 0 THEN inner_write(s, buf)
    ELSE
    LET max == Min(Len(buf), remainder_len(s.chunks[k]))
        r   == write(s, k - 1, SubSeq(buf, 1, max))
    IN  IF ~r.ok THEN r
        ELSE Ok([r.s EXCEPT !.chunks[k].pos = s.chunks[k].pos + r.v], r.v,
                buf, r.acc)

RECURSIVE flush(_, _)
\* Chunk::flush of the chunk at level k: self.inner.flush()
flush(s, k) == IF k = 0 THEN inner_flush(s) ELSE flush(s, k - 1)

\* ------------------------------------------------------- OChunk and IChunk

\* OStream::ochunk / IStream::ichunk: a tuple struct around a new Chunk.
\* The model marks the chunk record with the struct that holds it.
NewView(view, limit, at) ==
    [pos |-> 0, limit |-> limit, start |-> at, view |-> view]

\* The struct a chunk record stands for
ViewOf(c) == IF "view" \in DOMAIN c THEN c.view ELSE "Chunk"

\* Mutant of Implements: every struct implements every trait.
implements_everything(view, trait) == trait \in {"Read", "Write", "Seek"}

\* The std::io traits the crate implements for each struct (over a cursor)
Implements(view, trait) ==
    CASE view = "OChunk" -> trait \in {"Read", "Seek"}
      [] view = "IChunk" -> trait \in {"Write", "Seek"}
      [] OTHER           -> trait \in {"Read", "Write", "Seek"}

\* Mutant of ochunk_read: the view reads from the inner stream directly.
ochunk_read_inner(s, k, buf) == read(s, k - 1, buf)

\* OChunk::seek: self.0.seek(pos)
ochunk_seek(s, k, from) == seek(s, k, from)

\* OChunk::read: self.0.read(buf)
ochunk_read(s, k, buf) == read(s, k, buf)

\* IChunk::seek: self.0.seek(pos)
ichunk_seek(s, k, from) == seek(s, k, from)

\* IChunk::write: self.0.write(buf)
ichunk_write(s, k, buf) == write(s, k, buf)

\* IChunk::flush: self.0.flush()
ichunk_flush(s, k) == flush(s, k)

\* ------------------------------------------------------------ read_num.rs

\* The types the readers are instantiated for, with their size in bytes.
\* usize and isize have the size of a pointer of the build's target.
u8   == [name |-> "u8",   size |-> 1,  signed |-> FALSE, float |-> FALSE]
u16  == [name |-> "u16",  size |-> 2,  signed |-> FALSE, float |-> FALSE]
u32  == [name |-> "u32",  size |-> 4,  signed |-> FALSE, float |-> FALSE]
u64  == [name |-> "u64",  size |-> 8,  signed |-> FALSE, float |-> FALSE]
u128 == [name |-> "u128", size |-> 16, signed |-> FALSE, float |-> FALSE]
i8   == [name |-> "i8",   size |-> 1,  signed |-> TRUE,  float |-> FALSE]
i16  == [name |-> "i16",  size |-> 2,  signed |-> TRUE,  float |-> FALSE]
i32  == [name |-> "i32",  size |-> 4,  signed |-> TRUE,  float |-> FALSE]
i64  == [name |-> "i64",  size |-> 8,  signed |-> TRUE,  float |-> FALSE]
i128 == [name |-> "i128", size |-> 16, signed |-> TRUE,  float |-> FALSE]
f32  == [name |-> "f32",  size |-> 4,  signed |-> TRUE,  float |-> TRUE]
f64  == [name |-> "f64",  size |-> 8,  signed |-> TRUE,  float |-> TRUE]
usize(width) == [name |-> "usize", size |-> width, signed |-> FALSE, float |-> FALSE]
isize(width) == [name |-> "isize", size |-> width, signed |-> TRUE,  float |-> FALSE]

NumTypes(width) ==
    {u8, u16, u32, u64, u128, i8, i16, i32, i64, i128,
     usize(width), isize(width), f32, f64}

\* mem::size_of::<$type>()
size_of(ty) == ty.size

\* A value of a type of up to two bytes is an integer.  A value of a wider
\* type does not fit TLC's integers and is given by its bit pattern (two's
\* complement or IEEE 754), as bytes from the most significant one.
Wide(ty) == size_of(ty) > 2
bits(b) == [bits |-> b]

RECURSIVE be_value(_)
\* The unsigned number a byte sequence denotes, most significant byte first
be_value(b) ==
    IF b = << >> THEN 0
    ELSE be_value(SubSeq(b, 1, Len(b) - 1)) * 256 + b[Len(b)]

Reverse(b) == [i \in 1 .. Len(b) |-> b[Len(b) + 1 - i]]

\* Two's complement: the value of type ty that the unsigned number u denotes
from_bits(ty, u) ==
    IF ty.signed /\ u >= 2^(8 * ty.size - 1) THEN u - 2^(8 * ty.size) ELSE u

\* Mutant of from_be_bytes: the least significant byte is taken first.
from_be_bytes_lsb_first(ty, b) ==
    IF Wide(ty) THEN bits(Reverse(b)) ELSE from_bits(ty, be_value(Reverse(b)))

\* <$type>::from_be_bytes
from_be_bytes(ty, b) ==
    IF Wide(ty) THEN bits(b) ELSE from_bits(ty, be_value(b))

\* <$type>::from_le_bytes
from_le_bytes(ty, b) ==
    IF Wide(ty) THEN bits(Reverse(b)) ELSE from_bits(ty, be_value(Reverse(b)))

\* <$type>::to_be_bytes
to_be_bytes(ty, v) ==
    IF Wide(ty) THEN v.bits
    ELSE LET u == IF v < 0 THEN v + 2^(8 * ty.size) ELSE v
         IN  [i \in 1 .. ty.size |-> (u \div 256^(ty.size - i)) % 256]

\* <$type>::to_le_bytes
to_le_bytes(ty, v) ==
    IF Wide(ty) THEN Reverse(v.bits)
    ELSE LET u == IF v < 0 THEN v + 2^(8 * ty.size) ELSE v
         IN  [i \in 1 .. ty.size |-> (u \div 256^(i - 1)) % 256]

\* <$type>::to_ne_bytes on a target of the given endianness
to_ne_bytes(target_endian, ty, v) ==
    IF target_endian = "big" THEN to_be_bytes(ty, v) ELSE to_le_bytes(ty, v)

RECURSIVE read_exact_atomic(_, _, _)
\* Mutant of read_exact: a failed call leaves the source where it was.
read_exact_atomic(s, k, buf) ==
    IF buf = << >> THEN Ok(s, 0, << >>, {})
    ELSE LET r == read(s, k, buf)
         IN  IF ~r.ok
             THEN IF r.err = "Interrupted" THEN read_exact_atomic(r.s, k, buf) ELSE r
             ELSE IF r.v < Len(buf) THEN Err(s, "UnexpectedEof")
             ELSE Ok(r.s, 0, r.buf, r.acc)

RECURSIVE read_exact_accepts_short(_, _, _)
\* Mutant of read_exact: a short read is accepted, the rest of the buffer
\* stays as it was.
read_exact_accepts_short(s, k, buf) ==
    IF buf = << >> THEN Ok(s, 0, << >>, {})
    ELSE LET r == read(s, k, buf)
         IN  IF ~r.ok
             THEN IF r.err = "Interrupted"
                  THEN read_exact_accepts_short(r.s, k, buf) ELSE r
             ELSE Ok(r.s, 0, r.buf, r.acc)

RECURSIVE read_exact_no_retry(_, _, _)
\* Mutant of read_exact: an interrupted read ends the call like any other
\* error.
read_exact_no_retry(s, k, buf) ==
    IF buf = << >> THEN Ok(s, 0, << >>, {})
    ELSE LET r == read(s, k, buf)
         IN  IF ~r.ok THEN r
             ELSE IF r.v = 0 THEN Err(r.s, "UnexpectedEof")
             ELSE LET rest == read_exact_no_retry(r.s, k, SubSeq(r.buf, r.v + 1, Len(r.buf)))
                  IN  [rest EXCEPT !.buf = IF rest.ok
                                           THEN SubSeq(r.buf, 1, r.v) \o rest.buf
                                           ELSE << >>,
                                   !.acc = r.acc \cup rest.acc]

RECURSIVE read_exact(_, _, _)
\* Read::read_exact, the default method (a Chunk and the tests' reader
\* wrappers implement read only): read until the buffer is full, fail with
\* UnexpectedEof when a read returns 0 first, call read again when it was
\* interrupted and return any other error of it.  acc keeps the bytes
\* touched also when the call fails.
read_exact(s, k, buf) ==
    IF buf = << >> THEN Ok(s, 0, << >>, {})
    ELSE LET r == read(s, k, buf)
         IN  IF ~r.ok
             THEN IF r.err = "Interrupted" THEN read_exact(r.s, k, buf) ELSE r
             ELSE IF r.v = 0 THEN Err(r.s, "UnexpectedEof")
             ELSE LET rest == read_exact(r.s, k, SubSeq(r.buf, r.v + 1, Len(r.buf)))
                  IN  [rest EXCEPT !.buf = IF rest.ok
                                           THEN SubSeq(r.buf, 1, r.v) \o rest.buf
                                           ELSE << >>,
                                   !.acc = r.acc \cup rest.acc]

\* the zeroed buffer each reader starts from: [0u8; mem::size_of::<$type>()]
zeroed(ty) == [i \in 1 .. size_of(ty) |-> 0]

\* impl_num_reader_be!: the read_* methods of BigEndianReader
impl_num_reader_be(s, k, ty) ==
    LET r == read_exact(s, k, zeroed(ty))
    IN  IF r.ok THEN [r EXCEPT !.v = from_be_bytes(ty, r.buf)] ELSE r

\* impl_num_reader_le!: the read_* methods of LittleEndianReader
impl_num_reader_le(s, k, ty) ==
    LET r == read_exact(s, k, zeroed(ty))
    IN  IF r.ok THEN [r EXCEPT !.v = from_le_bytes(ty, r.buf)] ELSE r

\* impl_num_reader_ne!: the read_* methods of NativeEndianReader
impl_num_reader_ne(s, k, ty) ==
    LET r == read_exact(s, k, zeroed(ty))
    IN  IF r.ok THEN [r EXCEPT !.v = from_le_bytes(ty, r.buf)] ELSE r

\* ReadNum::read_*: Self::Reader::read_*(self), Reader chosen by the source
ReadNum(reader, s, k, ty) ==
    CASE reader = "BigEndianReader"    -> impl_num_reader_be(s, k, ty)
      [] reader = "LittleEndianReader" -> impl_num_reader_le(s, k, ty)
      [] OTHER                         -> impl_num_reader_ne(s, k, ty)

\* ------------------------------------------------------------------ state

VARIABLES
    stream,   \* [kind, data, cpos, chunks]: the cursor and the chunks over it
    op,       \* the last call: [name, whence, off, limit, buf]
    res,      \* what it returned: [ok, v, err, buf, acc]
    pre       \* the stream before the call

vars == << stream, op, res, pre >>

Depth == Len(stream.chunks)

Call(name, whence, off, limit, buf) ==
    [name |-> name, whence |-> whence, off |-> off, limit |-> limit, buf |-> buf]

Result(r) == [ok |-> r.ok, v |-> r.v, err |-> r.err, buf |-> r.buf, acc |-> r.acc]

NoResult == [ok |-> TRUE, v |-> 0, err |-> "", buf |-> << >>, acc |-> {}]

\* No call is in progress: the caller has taken the last result.
Idle == op.name = "idle"

SeqsUpTo(S, n) == UNION { [1 .. m -> S] : m \in 0 .. n }

Limits == {None} \cup { Some(v) : v \in 0 .. MaxLimit } \cup { Some(U64_MAX) }

SeekFroms ==
    { SeekFrom("Start", v) : v \in (0 .. MaxSeek) \cup {U64_MAX} }
    \cup { SeekFrom(w, v) : w \in {"Current", "End"},
                            v \in ((-MaxSeek) .. MaxSeek) \cup {I64_MIN, I64_MAX} }

ReadBufs  == { [i \in 1 .. n |-> FillByte] : n \in 0 .. MaxBuf }
WriteBufs == { [i \in 1 .. n |-> WriteByte] : n \in 0 .. MaxBuf }

\* Cursor::new over a zero-filled buffer, positioned inside it, at its end or
\* one byte beyond its end (Cursor::set_position accepts any position)
Init ==
    /\ \E kind \in {"fixed", "growable"}, data \in SeqsUpTo({ZeroByte}, MaxLen) :
         \E cpos \in 0 .. (Len(data) + 1) :
            stream = [kind |-> kind, data |-> data, cpos |-> cpos, chunks |-> << >>]
    /\ op = Call("idle", "", 0, None, << >>)
    /\ res = NoResult
    /\ pre = stream

\* Stream::chunk(limit) on the outermost stream
DoChunk ==
    \E limit \in Limits :
        /\ Idle
        /\ Depth + 1 \in Levels
        /\ stream' = [stream EXCEPT !.chunks =
                         Append(@, NewChunk(limit, stream_position(stream, Depth)))]
        /\ op' = Call("chunk", "", 0, limit, << >>)
        /\ res' = NoResult
        /\ pre' = stream

\* Chunk::into_inner on the outermost chunk
DoIntoInner ==
    /\ Idle
    /\ Depth >= 1
    /\ stream' = [stream EXCEPT !.chunks = SubSeq(@, 1, Depth - 1)]
    /\ op' = Call("into_inner", "", 0, None, << >>)
    /\ res' = NoResult
    /\ pre' = stream

\* Chunk::seek on the outermost chunk
DoSeek ==
    \E from \in SeekFroms :
        /\ Idle
        /\ Depth >= 1
        /\ LET r == seek(stream, Depth, from)
           IN  /\ stream' = r.s
               /\ res' = Result(r)
        /\ op' = Call("seek", from.whence, from.off, None, << >>)
        /\ pre' = stream

\* Chunk::read on the outermost chunk
DoRead ==
    \E buf \in ReadBufs :
        /\ Idle
        /\ Depth >= 1
        /\ LET r == read(stream, Depth, buf)
           IN  /\ stream' = r.s
               /\ res' = Result(r)
        /\ op' = Call("read", "", 0, None, buf)
        /\ pre' = stream

\* Chunk::write on the outermost chunk
DoWrite ==
    \E buf \in WriteBufs :
        /\ Idle
        /\ Depth >= 1
        /\ LET r == write(stream, Depth, buf)
           IN  /\ Len(r.s.data) <= MaxData
               /\ stream' = r.s
               /\ res' = Result(r)
        /\ op' = Call("write", "", 0, None, buf)
        /\ pre' = stream

\* Chunk::remainder_len on the outermost chunk
DoRemainderLen ==
    /\ Idle
    /\ Depth >= 1
    /\ stream' = stream
    /\ op' = Call("remainder_len", "", 0, None, << >>)
    /\ res' = [ok |-> TRUE, v |-> remainder_len(stream.chunks[Depth]),
               err |-> "", buf |-> << >>, acc |-> {}]
    /\ pre' = stream

\* Chunk::end_position on the outermost chunk
DoEndPosition ==
    /\ Idle
    /\ Depth >= 1
    /\ LET r == end_position(stream, Depth)
       IN  /\ stream' = r.s
           /\ res' = Result(r)
    /\ op' = Call("end_position", "", 0, None, << >>)
    /\ pre' = stream

\* The call returns: the caller takes the result and is free to call again.
Return ==
    /\ ~Idle
    /\ op' = Call("idle", "", 0, None, << >>)
    /\ res' = NoResult
    /\ pre' = stream
    /\ stream' = stream

Next ==
    \/ DoChunk
    \/ DoIntoInner
    \/ DoSeek
    \/ DoRead
    \/ DoWrite
    \/ DoRemainderLen
    \/ DoEndPosition
    \/ Return

Spec == Init /\ [][Next]_vars

\* ------------------------------------------- the numeric decoder's machine
\* A second specification over the same variables: the source of a decode
\* is the cursor behind a reader wrapper (level 0, as in the crate's tests)
\* or a chunk over it, the buffer holds arbitrary bytes, and the build's
\* target endianness is part of the state.

\* The targets of a build, by byte order and size of a pointer in bytes: a
\* 64-bit little-endian one (as x86_64) and a 32-bit big-endian one (as
\* powerpc)
x86_64  == [endian |-> "little", pointer_width |-> 8]
powerpc == [endian |-> "big",    pointer_width |-> 4]
Targets == {x86_64, powerpc}

Rep(n, byte) == [i \in 1 .. n |-> byte]

\* The bit patterns of 11.0 and of the largest finite value of a float type
FloatEleven(ty) ==
    IF size_of(ty) = 4 THEN <<65, 48, 0, 0>> ELSE <<64, 38>> \o Rep(6, 0)
FloatMax(ty) ==
    IF size_of(ty) = 4 THEN <<127, 127, 255, 255>> ELSE <<127, 239>> \o Rep(6, 255)

\* The values the tests decode, 11, MAX and MIN of each type, and with them
\* 0 and the values around the sign bit
Values(ty) ==
    LET n == size_of(ty)
        half == 2^(8 * n - 1)
    IN  IF ~Wide(ty)
        THEN IF ty.signed THEN {-half, -1, 0, 11, half - 1}
             ELSE {0, 11, half - 1, half, 2 * half - 1}
        ELSE IF ty.float
        THEN {bits(Rep(n, 0)), bits(FloatEleven(ty)), bits(FloatMax(ty)),
              bits(<<255>> \o Tail(FloatMax(ty)))}
        ELSE {bits(Rep(n, 0)), bits(Rep(n - 1, 0) \o <<11>>), bits(Rep(n, 255)),
              bits(<<127>> \o Rep(n - 1, 255)), bits(<<128>> \o Rep(n - 1, 0))}

\* let data = &mut <value>.to_be_bytes() (to_le_bytes, to_ne_bytes)
Encodings(width) ==
    UNION { UNION { { to_be_bytes(ty, v), to_le_bytes(ty, v) } : v \in Values(ty) }
            : ty \in NumTypes(width) }

Readers == {"BigEndianReader", "LittleEndianReader", "NativeEndianReader"}

NumCall(reader, ty) == [name |-> "read_num", reader |-> reader, ty |-> ty]

\* Cursor::new(data) over the bytes of a value, or over no bytes
InitNum ==
    /\ \E target \in Targets :
         \E data \in Encodings(target.pointer_width) \cup { << >> } :
            stream = [kind |-> "fixed", data |-> data, cpos |-> 0,
                      chunks |-> << >>, target_endian |-> target.endian,
                      target_pointer_width |-> target.pointer_width]
    /\ op = Call("idle", "", 0, None, << >>)
    /\ res = NoResult
    /\ pre = stream

\* ReadNum::read_u8 .. read_f64 on the outermost stream
DoReadNum ==
    \E reader \in Readers, ty \in NumTypes(stream.target_pointer_width) :
        /\ Idle
        /\ LET r == ReadNum(reader, stream, Depth, ty)
           IN  /\ stream' = r.s
               /\ res' = Result(r)
        /\ op' = NumCall(reader, ty)
        /\ pre' = stream

\* Stream::chunk(limit) on the cursor
DoChunkCursor ==
    /\ Depth = 0
    /\ DoChunk

NextNum ==
    \/ DoChunkCursor
    \/ DoReadNum
    \/ Return

SpecNum == InitNum /\ [][NextNum]_vars

\* ------------------------------------------- the capability views' machine
\* A third specification over the same variables: one Chunk, OChunk or
\* IChunk over the cursor, driven through the methods its struct has.

\* The struct of the outermost stream
Top == IF Depth = 0 THEN "Cursor" ELSE ViewOf(stream.chunks[Depth])

\* OStream::ochunk(limit) on the cursor
DoOChunk ==
    \E limit \in Limits :
        /\ Idle
        /\ Depth = 0
        /\ stream' = [stream EXCEPT !.chunks =
                         Append(@, NewView("OChunk", limit, stream_position(stream, Depth)))]
        /\ op' = Call("ochunk", "", 0, limit, << >>)
        /\ res' = NoResult
        /\ pre' = stream

\* IStream::ichunk(limit) on the cursor
DoIChunk ==
    \E limit \in Limits :
        /\ Idle
        /\ Depth = 0
        /\ stream' = [stream EXCEPT !.chunks =
                         Append(@, NewView("IChunk", limit, stream_position(stream, Depth)))]
        /\ op' = Call("ichunk", "", 0, limit, << >>)
        /\ res' = NoResult
        /\ pre' = stream

\* Seek::seek on the outermost chunk or view
DoViewSeek ==
    \E from \in SeekFroms :
        /\ Idle
        /\ Depth >= 1
        /\ Implements(Top, "Seek")
        /\ LET r == CASE Top = "OChunk" -> ochunk_seek(stream, Depth, from)
                      [] Top = "IChunk" -> ichunk_seek(stream, Depth, from)
                      [] OTHER          -> seek(stream, Depth, from)
           IN  /\ stream' = r.s
               /\ res' = Result(r)
        /\ op' = Call("seek", from.whence, from.off, None, << >>)
        /\ pre' = stream

\* Read::read on the outermost chunk or view, if its struct has it
DoViewRead ==
    \E buf \in ReadBufs :
        /\ Idle
        /\ Depth >= 1
        /\ Implements(Top, "Read")
        /\ LET r == IF Top = "OChunk" THEN ochunk_read(stream, Depth, buf)
                    ELSE read(stream, Depth, buf)
           IN  /\ stream' = r.s
               /\ res' = Result(r)
        /\ op' = Call("read", "", 0, None, buf)
        /\ pre' = stream

\* Write::write on the outermost chunk or view, if its struct has it
DoViewWrite ==
    \E buf \in WriteBufs :
        /\ Idle
        /\ Depth >= 1
        /\ Implements(Top, "Write")
        /\ LET r == IF Top = "IChunk" THEN ichunk_write(stream, Depth, buf)
                    ELSE write(stream, Depth, buf)
           IN  /\ Len(r.s.data) <= MaxData
               /\ stream' = r.s
               /\ res' = Result(r)
        /\ op' = Call("write", "", 0, None, buf)
        /\ pre' = stream

\* Write::flush on the outermost chunk or view, if its struct has it
DoViewFlush ==
    /\ Idle
    /\ Depth >= 1
    /\ Implements(Top, "Write")
    /\ LET r == IF Top = "IChunk" THEN ichunk_flush(stream, Depth)
                ELSE flush(stream, Depth)
       IN  /\ stream' = r.s
           /\ res' = Result(r)
    /\ op' = Call("flush", "", 0, None, << >>)
    /\ pre' = stream

NextView ==
    \/ DoChunkCursor
    \/ DoOChunk
    \/ DoIChunk
    \/ DoIntoInner
    \/ DoViewSeek
    \/ DoViewRead
    \/ DoViewWrite
    \/ DoViewFlush
    \/ Return

SpecView == Init /\ [][NextView]_vars

\* ------------------------------------------- the large limits' machine
\* A fourth specification over the same variables: one chunk over the
\* cursor whose limit may also be just below u64::MAX, so that start + limit
\* overflows without the limit being the sentinel.

WideLimits == Limits \cup { Some(U64_MAX - 1) }

\* Stream::chunk(limit) on the cursor, large limits included
DoChunkWide ==
    \E limit \in WideLimits :
        /\ Idle
        /\ Depth = 0
        /\ stream' = [stream EXCEPT !.chunks =
                         Append(@, NewChunk(limit, stream_position(stream, Depth)))]
        /\ op' = Call("chunk", "", 0, limit, << >>)
        /\ res' = NoResult
        /\ pre' = stream

NextWide ==
    \/ DoChunkWide
    \/ DoIntoInner
    \/ DoSeek
    \/ DoRead
    \/ DoWrite
    \/ DoRemainderLen
    \/ DoEndPosition
    \/ Return

SpecWide == Init /\ [][NextWide]_vars

\* ------------------------------------------- the failing device's machine
\* A fifth specification over the same variables: the cursor sits behind a
\* device whose next 0, 1 or 2 calls of read, write or flush fail; the
\* numeric readers decode from it too.  The build is the 64-bit one: byte
\* order and pointer width play no part in a failure.

Faults == {"Interrupted", "Other"}

InitFault ==
    /\ \E kind \in {"fixed", "growable"}, data \in SeqsUpTo({ZeroByte}, MaxLen),
          fault \in Faults, n \in {0, 1, 2}, target \in {x86_64} :
         \E cpos \in 0 .. Len(data) :
            stream = [kind |-> kind, data |-> data, cpos |-> cpos, chunks |-> << >>,
                      fail_next |-> n, fault |-> fault,
                      target_endian |-> target.endian,
                      target_pointer_width |-> target.pointer_width]
    /\ op = Call("idle", "", 0, None, << >>)
    /\ res = NoResult
    /\ pre = stream

NextFault ==
    \/ DoChunk
    \/ DoIntoInner
    \/ DoRead
    \/ DoWrite
    \/ DoViewFlush
    \/ DoReadNum
    \/ Return

SpecFault == InitFault /\ [][NextFault]_vars

\* ------------------------------------------------- the window, as specified
\* These definitions state the specification's view of a window in ordinary
\* (unbounded) integer arithmetic, from the history field `start`; none of
\* them is used by the operations above.

Max(a, b) == IF a >= b THEN a ELSE b

RECURSIVE WinEnd(_, _)

\* Length of the stream chunk k wraps, in that stream's own coordinates: the
\* buffer's length for the cursor, the parent's window length for a parent.
UnderLen(c, k) ==
    IF k = 1 THEN Len(c.data) ELSE WinEnd(c, k - 1) - c.chunks[k - 1].start

\* end = min(start + limit, underlying length), underlying length if no limit
WinEnd(c, k) ==
    IF c.chunks[k].limit = None THEN UnderLen(c, k)
    ELSE Min(c.chunks[k].start + c.chunks[k].limit[1], UnderLen(c, k))

\* remaining = end - (start + pos), 0 if that underflows
Remaining(c, k) == Max(0, WinEnd(c, k) - (c.chunks[k].start + c.chunks[k].pos))

RECURSIVE AbsStart(_, _)
\* Absolute position (in the buffer) of the start of chunk k's window
AbsStart(c, k) == IF k = 0 THEN 0 ELSE AbsStart(c, k - 1) + c.chunks[k].start

\* Absolute position of the end of chunk k's window
AbsEnd(c, k) == AbsStart(c, k - 1) + WinEnd(c, k)

\* Every chunk of c starts within the stream it wraps (no chunk was created
\* on a stream positioned beyond its end)
CreatedInside(c) ==
    \A j \in 1 .. Len(c.chunks) : c.chunks[j].start <= UnderLen(c, j)

\* The chunk the last call was made on, before and after the call
K    == Len(pre.chunks)
Was  == pre.chunks[K]
Now  == stream.chunks[K]
IsOp(name) == op.name = name /\ K >= 1
IsIo == IsOp("seek") \/ IsOp("read") \/ IsOp("write")

\* The position a seek asks for, in the inner stream's coordinates
Target ==
    CASE op.whence = "Start"   -> Was.start + op.off
      [] op.whence = "Current" -> stream_position(pre, K - 1) + op.off
      [] OTHER                 -> WinEnd(pre, K) + op.off

\* The seek is one the window admits
Admitted ==
    /\ Target >= 0 /\ Target <= U64_MAX
    /\ Was.start <= Target /\ Target <= WinEnd(pre, K)

\* ------------------------------------------------------------------ claims

\* C1: no seek, read or write on a chunk touches a byte of the underlying
\* buffer at an absolute position below the window's start or at or beyond
\* its end (the end as it is when the call is made), whether the underlying
\* stream is fixed or growable.  Stated for chunks created within their
\* stream.
C1_NoAccessOutsideWindow ==
    (IsIo /\ CreatedInside(pre)) =>
        \A a \in res.acc : AbsStart(pre, K) <= a /\ a < AbsEnd(pre, K)

\* What remains of C1 (not a claim): on a fixed-capacity stream no call
\* touches a byte outside the window, wherever the chunk was created.
C1_FixedOnly ==
    (IsIo /\ pre.kind = "fixed") =>
        \A a \in res.acc : AbsStart(pre, K) <= a /\ a < AbsEnd(pre, K)

\* C2: after every successful create, seek, read or write the chunk's
\* position lies in its window: start <= start + pos <= end.
C2_PositionInWindow ==
    ((IsIo \/ op.name = "chunk") /\ res.ok) =>
        LET k == Len(stream.chunks)
            c == stream.chunks[k]
        IN  c.start <= c.start + c.pos /\ c.start + c.pos <= WinEnd(stream, k)

\* What remains of C2 (not a claim): the position stays in the window of
\* every chunk created within its stream.
C2_CreatedInside ==
    ((IsIo \/ op.name = "chunk") /\ res.ok /\ CreatedInside(stream)) =>
        LET k == Len(stream.chunks)
            c == stream.chunks[k]
        IN  c.start + c.pos <= WinEnd(stream, k)

\* C3: seek resolves Start(v) to start + v, Current(v) to the inner stream's
\* position + v and End(v) to end + v with overflow-checked arithmetic; it
\* succeeds exactly when start <= target <= end, and then the inner stream is
\* at target, pos is target - start and that value is returned.
C3_SeekResolution ==
    IsOp("seek") =>
        /\ res.ok <=> Admitted
        /\ res.ok => /\ stream_position(stream, K - 1) = Target
                     /\ Now.pos = Target - Was.start
                     /\ res.v = Target - Was.start

\* C3 witness: seeks from the window's end and from the current position
\* have succeeded on a window that starts at an offset, nested included.
C3_Witness ==
    /\ IsOp("seek") /\ res.ok /\ op.whence = "End" /\ op.off < 0
    /\ K = 2 /\ Was.start > 0 /\ Was.limit # None /\ Now.pos > 0

\* C4: a seek to a negative, overflowing or out-of-window target (one byte
\* past the end included) fails with InvalidInput and changes nothing: not
\* the chunk's pos, not the underlying position, not a parent's pos.
C4_FailedSeekChangesNothing ==
    (IsOp("seek") /\ ~Admitted) =>
        /\ ~res.ok
        /\ res.err = "InvalidInput"
        /\ stream = pre

\* C4 witness: a nested chunk away from its start has refused a seek to one
\* byte past its end.
C4_Witness ==
    /\ IsOp("seek") /\ ~res.ok /\ K = 2
    /\ Target = WinEnd(pre, K) + 1
    /\ Was.pos > 0 /\ pre.chunks[1].pos > Was.pos

\* The bytes left in the stream chunk K wraps, from the chunk's start
U == UnderLen(pre, K) - Was.start

\* C5 as claimed, for windows created within their stream: a window with no
\* limit accepts seek(Start(len)), returning len, and refuses
\* seek(Start(len + 1)), len being the underlying stream's length.
C5_AsClaimed ==
    (IsOp("seek") /\ op.whence = "Start" /\ Was.limit = None /\ U >= 0) =>
        /\ op.off = UnderLen(pre, K) => (res.ok /\ res.v = UnderLen(pre, K))
        /\ op.off = UnderLen(pre, K) + 1 => ~res.ok

\* C5 amended: a window with no limit created at position s <= len accepts
\* seek(Start(len - s)), returning len - s and leaving the underlying stream
\* at len, and refuses seek(Start(len - s + 1)).
C5_SeekToStreamEnd ==
    (IsOp("seek") /\ op.whence = "Start" /\ Was.limit = None /\ U >= 0) =>
        /\ op.off = U => /\ res.ok /\ res.v = U
                         /\ stream_position(stream, K - 1) = UnderLen(pre, K)
        /\ op.off = U + 1 => (~res.ok /\ stream = pre)

\* C5 witness: a no-limit window created at an offset has been sought to the
\* end of its stream, which is not at offset len of the window.
C5_Witness ==
    /\ IsOp("seek") /\ op.whence = "Start" /\ Was.limit = None
    /\ Was.start > 0 /\ U > 0 /\ op.off = U /\ res.ok /\ Was.pos # U

\* C6: a chunk with limit L created at position s with L <= len - s accepts
\* seek(Start(L)), returning L, refuses seek(Start(L + 1)) without moving,
\* and reports remainder_len() = L at position 0.
C6_LimitWithinStream ==
    (K >= 1 /\ Was.limit # None /\ Was.limit[1] <= U) =>
        LET L == Was.limit[1]
        IN  /\ (op.name = "seek" /\ op.whence = "Start" /\ op.off = L)
                => (res.ok /\ res.v = L /\ Now.pos = L)
            /\ (op.name = "seek" /\ op.whence = "Start" /\ op.off = L + 1)
                => (~res.ok /\ Now.pos = Was.pos /\ stream = pre)
            /\ (op.name = "remainder_len" /\ Was.pos = 0) => res.v = L

\* C6 witness: a chunk sitting at its limit L >= 1, short of the stream's
\* end, has refused seek(Start(L + 1)).
C6_Witness ==
    /\ IsOp("seek") /\ op.whence = "Start" /\ Was.limit # None
    /\ Was.limit[1] >= 1 /\ Was.limit[1] < U
    /\ op.off = Was.limit[1] + 1 /\ Was.pos = Was.limit[1] /\ ~res.ok

\* C7: a chunk whose limit L exceeds the U bytes its stream holds from the
\* chunk's start ends at the stream's end: end_position() returns the
\* stream's length, seek(Start(U)) succeeds and seek(Start(U + 1)) fails.
C7_LimitBeyondStream ==
    (K >= 1 /\ Was.limit # None /\ U >= 0 /\ Was.limit[1] > U) =>
        /\ op.name = "end_position" => (res.ok /\ res.v = UnderLen(pre, K))
        /\ (op.name = "seek" /\ op.whence = "Start" /\ op.off = U)
            => (res.ok /\ res.v = U)
        /\ (op.name = "seek" /\ op.whence = "Start" /\ op.off = U + 1)
            => ~res.ok

\* C7 witness: with an ordinary limit (not the u64::MAX sentinel) larger than
\* what the stream holds, seek(Start(U + 1)) has been refused although
\* U + 1 <= L.
C7_Witness ==
    /\ IsOp("seek") /\ op.whence = "Start" /\ Was.limit # None
    /\ Was.limit[1] < U64_MAX /\ U >= 1 /\ Was.limit[1] > U
    /\ op.off = U + 1 /\ ~res.ok

\* What the parent of chunk K has left from the position chunk K was
\* created at, in stream state c
ParentLeft(c) ==
    Max(0, WinEnd(c, K - 1) - (c.chunks[K - 1].start + c.chunks[K].start))

\* C8: a chunk nested in a chunk is bounded by the smaller of its own limit
\* and what its parent has left from the position p it was created at: after
\* any seek, read or write on the child its pos exceeds neither.  Stated for
\* chunks created within their stream.
C8_NestingNeverWidens ==
    (IsIo /\ K >= 2 /\ CreatedInside(pre)) =>
        /\ Now.limit # None => Now.pos <= Now.limit[1]
        /\ Now.pos <= ParentLeft(pre)

\* What remains of C8 (not a claim): the child never passes its own limit,
\* nor what its parent has left once the call has returned, and touches no
\* byte at or beyond start + limit of itself or of a chunk around it.
C8_WithinLimits ==
    (IsIo /\ K >= 2) =>
        /\ Now.limit # None => Now.pos <= Now.limit[1]
        /\ Now.pos <= ParentLeft(stream)
        /\ pre.kind = "fixed" => Now.pos <= ParentLeft(pre)
        /\ \A a \in res.acc : \A j \in 1 .. K :
              pre.chunks[j].limit # None
              => a < AbsStart(pre, j) + pre.chunks[j].limit[1]

\* C9: a read with a buffer longer than what remains in the window is a short
\* read: it succeeds, returns the count supplied (what remains), fills that
\* prefix of the buffer with the window's bytes, leaves the rest of the buffer
\* as it was and advances pos by the count; at the window's end it returns 0.
C9_ShortRead ==
    IsOp("read") =>
        LET n    == Min(Len(op.buf), Remaining(pre, K))
            from == AbsStart(pre, K) + Was.pos
        IN  /\ res.ok /\ res.v = n
            /\ Len(res.buf) = Len(op.buf)
            /\ \A i \in 1 .. n : res.buf[i] = pre.data[from + i]
            /\ \A i \in (n + 1) .. Len(op.buf) : res.buf[i] = op.buf[i]
            /\ Now.pos = Was.pos + n
            /\ stream.data = pre.data
            /\ Remaining(pre, K) = 0 => res.v = 0

\* C9 witness: a read with a buffer longer than what was left in a limited
\* window, short of the stream's end, returned some written bytes and left
\* the buffer's tail alone.
C9_Witness ==
    /\ IsOp("read") /\ Was.limit # None /\ Was.start > 0
    /\ res.v >= 1 /\ res.v < Len(op.buf)
    /\ AbsEnd(pre, K) < Len(pre.data)
    /\ res.buf[1] = WriteByte /\ res.buf[Len(op.buf)] = FillByte

\* C10: a write with a buffer longer than what remains in the window writes
\* only the prefix that fits, returns that count, advances pos by it and
\* leaves every byte at or beyond the window's end as it was.  Stated for
\* chunks created within their stream.
C10_ShortWrite ==
    (IsOp("write") /\ CreatedInside(pre)) =>
        LET n    == Min(Len(op.buf), Remaining(pre, K))
            from == AbsStart(pre, K) + Was.pos
        IN  /\ res.ok /\ res.v = n
            /\ Now.pos = Was.pos + n
            /\ Len(stream.data) = Len(pre.data)
            /\ \A i \in 1 .. Len(pre.data) :
                  stream.data[i] = IF i > from /\ i <= from + n
                                   THEN op.buf[i - from] ELSE pre.data[i]

\* What remains of C10 (not a claim): on a fixed-capacity stream the write is
\* clamped to what remains in the window, wherever the chunk was created.
C10_FixedOnly ==
    (IsOp("write") /\ pre.kind = "fixed") =>
        LET n    == Min(Len(op.buf), Remaining(pre, K))
            from == AbsStart(pre, K) + Was.pos
        IN  /\ res.ok /\ res.v = n
            /\ Now.pos = Was.pos + n
            /\ Len(stream.data) = Len(pre.data)
            /\ \A i \in 1 .. Len(pre.data) :
                  stream.data[i] = IF i > from /\ i <= from + n
                                   THEN op.buf[i - from] ELSE pre.data[i]

\* C11: into_inner gives back the inner stream positioned at start + pos of
\* the chunk it unwraps, whatever seeks, reads and writes were made on the
\* chunk; unwrapping a chunk right after creating it leaves the inner
\* stream where it was before chunk().
C11_IntoInnerPosition ==
    IsOp("into_inner") =>
        /\ stream_position(stream, K - 1) = Was.start + Was.pos
        /\ Was.pos = 0 => stream_position(stream, K - 1) = Was.start
        /\ stream.data = pre.data
        /\ stream.chunks = SubSeq(pre.chunks, 1, K - 1)

\* A chunk created at an offset is unwrapped after its position has moved.
C11_Witness ==
    /\ IsOp("into_inner")
    /\ Was.start > 0
    /\ Was.pos > 0
    /\ stream_position(stream, K - 1) = Was.start + Was.pos

\* C12: remainder_len returns what remains of the window, end - (start + pos)
\* with 0 on underflow and end = min(start + limit, underlying length), for
\* every chunk with a limit, and the unbounded sentinel u64::MAX for a chunk
\* without one.  Stated for ordinary limits and chunks created within their
\* stream.
C12_RemainderIsRemaining ==
    (IsOp("remainder_len") /\ CreatedInside(pre)) =>
        IF Was.limit = None THEN res.v = U64_MAX
        ELSE Was.limit[1] < U64_MAX => res.v = Remaining(pre, K)

\* What remains of C12 (not a claim): remainder_len is limit - pos, whatever
\* the underlying length, and never less than what remains of the window.
C12_LimitMinusPos ==
    (IsOp("remainder_len") /\ CreatedInside(pre)) =>
        IF Was.limit = None THEN res.v = U64_MAX
        ELSE Was.limit[1] < U64_MAX =>
                /\ res.v = Max(0, Was.limit[1] - Was.pos)
                /\ res.v >= Remaining(pre, K)

\* The recorded call, made again on the outermost chunk of stream state s
Redo(s) ==
    CASE op.name = "seek"  -> seek(s, K, SeekFrom(op.whence, op.off))
      [] op.name = "read"  -> read(s, K, op.buf)
      [] op.name = "write" -> write(s, K, op.buf)
      [] op.name = "end_position" -> end_position(s, K)
      [] op.name = "flush" -> flush(s, K)
      [] OTHER -> Ok(s, remainder_len(s.chunks[K]), << >>, {})

Unbounded == {None, Some(U64_MAX)}

\* Stream state c with the limit of chunk j exchanged: None for Some(u64::MAX)
\* and Some(u64::MAX) for None
Twin(c, j) ==
    [c EXCEPT !.chunks[j].limit = IF @ = None THEN Some(U64_MAX) ELSE None]

\* C13: a chunk with limit Some(u64::MAX) behaves as one with limit None over
\* the same stream state: every seek, read, write and remainder_len call
\* (and the end_position probe) returns the same result and leaves the same
\* pos, underlying position and underlying bytes, at every pos and whether
\* the chunk is the one called or the parent of the one called.
C13_MaxLimitIsNoLimit ==
    (IsIo \/ IsOp("remainder_len") \/ IsOp("end_position")) =>
        \A j \in 1 .. K :
            pre.chunks[j].limit \in Unbounded =>
                LET r == Redo(Twin(pre, j))
                IN  /\ Result(r) = res
                    /\ r.s = Twin(stream, j)

\* remainder_len is asked of a chunk with limit Some(u64::MAX) whose position
\* has moved, and answers as a chunk without limit does.
C13_Witness ==
    /\ IsOp("remainder_len")
    /\ Was.limit = Some(U64_MAX)
    /\ Was.pos > 0
    /\ res.v = U64_MAX

\* ------------------------------------------------- claims on the decoder

IsNum == op.name = "read_num"

\* The bytes the source of the last decode could still supply before it:
\* the buffer from the cursor's position, cut at the window's end for a chunk
Avail(c) ==
    LET p == Min(c.cpos, Len(c.data))
        n == IF Len(c.chunks) = 0 THEN Len(c.data) - p
             ELSE Min(Len(c.data) - p, Remaining(c, Len(c.chunks)))
    IN  SubSeq(c.data, p + 1, p + n)

StartsWith(b, prefix) ==
    Len(b) >= Len(prefix) /\ SubSeq(b, 1, Len(prefix)) = prefix

\* C14: BigEndianReader decodes v.to_be_bytes() to v and LittleEndianReader
\* decodes v.to_le_bytes() to v, for every type and every value v of it
\* (0, the minimum and the maximum included).
C14_DecodeRoundTrip ==
    IsNum =>
        \A v \in Values(op.ty) :
            /\ (op.reader = "BigEndianReader"
                    /\ StartsWith(Avail(pre), to_be_bytes(op.ty, v)))
                => (res.ok /\ res.v = v)
            /\ (op.reader = "LittleEndianReader"
                    /\ StartsWith(Avail(pre), to_le_bytes(op.ty, v)))
                => (res.ok /\ res.v = v)

\* The minimum of i16, encoded most significant byte first, is decoded by
\* BigEndianReader.
C14_Witness ==
    /\ IsNum
    /\ op.reader = "BigEndianReader"
    /\ op.ty = i16
    /\ StartsWith(Avail(pre), to_be_bytes(i16, -(2^15)))
    /\ res.ok
    /\ res.v = -(2^15)
    /\ res.buf = << 128, 0 >>

\* C15: NativeEndianReader decodes in the byte order of the target the crate
\* is built for: on a little-endian and on a big-endian target alike,
\* decoding v.to_ne_bytes() yields v.
C15_NativeRoundTrip ==
    (IsNum /\ op.reader = "NativeEndianReader") =>
        \A v \in Values(op.ty) :
            StartsWith(Avail(pre), to_ne_bytes(pre.target_endian, op.ty, v))
                => (res.ok /\ res.v = v)

\* What remains of C15 (not a claim): the round trip holds on little-endian
\* targets and for single-byte types.
C15_LittleEndianTarget ==
    (IsNum /\ op.reader = "NativeEndianReader"
           /\ (pre.target_endian = "little" \/ size_of(op.ty) = 1)) =>
        \A v \in Values(op.ty) :
            StartsWith(Avail(pre), to_ne_bytes(pre.target_endian, op.ty, v))
                => (res.ok /\ res.v = v)

\* C16: a decode, whatever the reader and the type, fails with UnexpectedEof
\* when the source can supply fewer than size_of(type) bytes, and otherwise
\* succeeds on exactly the next size_of(type) bytes, leaving the source
\* size_of(type) bytes further.
C16_ExactOrEof ==
    IsNum =>
        LET n == size_of(op.ty)
            a == Avail(pre)
        IN  IF Len(a) < n
            THEN ~res.ok /\ res.err = "UnexpectedEof"
            ELSE /\ res.ok
                 /\ res.buf = SubSeq(a, 1, n)
                 /\ res.acc = pre.cpos .. (pre.cpos + n - 1)
                 /\ stream.cpos = pre.cpos + n
                 /\ K >= 1 => Now.pos = Was.pos + n

\* A two-byte decode finds one byte, not zero, and fails.
C16_Witness ==
    /\ IsNum
    /\ size_of(op.ty) = 2
    /\ Len(Avail(pre)) = 1
    /\ Avail(pre)[1] # 0
    /\ ~res.ok
    /\ res.err = "UnexpectedEof"

\* Not a claim: over a device whose next reads are interrupted, read_exact
\* calls read until it is let through, so a decode uses up every pending
\* failure and then ends as over a sound device; any other error ends the
\* decode at the first read, nothing read.
DecodeOverFailingDevice ==
    (IsNum /\ Failing(pre)) =>
        IF pre.fault = "Interrupted"
        THEN /\ stream.fail_next = 0
             /\ res.ok <=> Len(Avail(pre)) >= size_of(op.ty)
             /\ res.ok => /\ res.buf = SubSeq(Avail(pre), 1, size_of(op.ty))
                          /\ stream.cpos = pre.cpos + size_of(op.ty)
             /\ ~res.ok => res.err = "UnexpectedEof"
        ELSE /\ ~res.ok
             /\ res.err = pre.fault
             /\ stream.fail_next = pre.fail_next - 1
             /\ stream.cpos = pre.cpos
             /\ stream.chunks = pre.chunks

\* A two-byte decode through a chunk over a device that interrupts twice
DecodeOverFailingDevice_Witness ==
    /\ IsNum
    /\ K = 1
    /\ pre.fault = "Interrupted"
    /\ pre.fail_next = 2
    /\ size_of(op.ty) = 2
    /\ res.ok
    /\ stream.fail_next = 0
    /\ Now.pos = Was.pos + 2

\* C17: a decode through a chunk never reads past the chunk's window: it
\* touches no byte outside the window and leaves the underlying stream at or
\* before the window's end, and when fewer than size_of(type) bytes remain
\* in the window it fails with UnexpectedEof, whatever the underlying stream
\* holds beyond the window's end.
C17_DecodeStaysInWindow ==
    (IsNum /\ K >= 1) =>
        /\ \A a \in res.acc : AbsStart(pre, K) <= a /\ a < AbsEnd(pre, K)
        /\ stream.cpos <= AbsEnd(pre, K)
        /\ Remaining(pre, K) < size_of(op.ty) =>
                ~res.ok /\ res.err = "UnexpectedEof"

\* One byte remains in the window, the underlying stream holds another one
\* beyond the window's end, and a two-byte decode fails.
C17_Witness ==
    /\ IsNum
    /\ K >= 1
    /\ size_of(op.ty) = 2
    /\ Remaining(pre, K) = 1
    /\ Len(pre.data) > AbsEnd(pre, K)
    /\ ~res.ok
    /\ res.err = "UnexpectedEof"
    /\ res.acc = {AbsEnd(pre, K) - 1}
    /\ stream.cpos = AbsEnd(pre, K)

\* ------------------------------------------------- claims on the window

\* C20: whenever control is with the caller, after successful and failed
\* calls alike, the stream each chunk wraps is at start + pos, start being
\* the position captured when the chunk was created: the start_position()
\* the code derives (inner position - pos) never underflows and never
\* changes.
C20_PositionIsStartPlusPos ==
    \A j \in 1 .. Depth :
        /\ stream_position(stream, j - 1) = stream.chunks[j].start + stream.chunks[j].pos
        /\ stream_position(stream, j - 1) >= stream.chunks[j].pos
        /\ start_position(stream, j) = stream.chunks[j].start

\* A seek fails on a chunk created at an offset whose position has moved, and
\* the underlying stream is still at start + pos.
C20_Witness ==
    /\ IsOp("seek")
    /\ ~res.ok
    /\ Was.start > 0
    /\ Was.pos > 0
    /\ Now = Was
    /\ stream_position(stream, K - 1) = Now.start + Now.pos

\* ---------------------------------------------------- claims on the views

\* Stream state c with the struct around the outermost chunk taken off: the
\* same chunk record, held by no view
AsChunk(c) ==
    IF Len(c.chunks) = 0 THEN c
    ELSE [c EXCEPT !.chunks[Len(c.chunks)] =
             [pos |-> @.pos, limit |-> @.limit, start |-> @.start]]

OnView(view) == ~Idle /\ K >= 1 /\ ViewOf(Was) = view

\* C18: the views are pure forwarding adapters: every seek and read on an
\* OChunk, and every seek, write and flush on an IChunk, returns what the
\* same call returns on a Chunk with the same pos and limit over the same
\* stream state and leaves the same pos, underlying position and bytes, and
\* into_inner gives the underlying stream back at start + pos.
C18_ViewsForward ==
    (OnView("OChunk") \/ OnView("IChunk")) =>
        IF op.name = "into_inner"
        THEN /\ stream.chunks = SubSeq(pre.chunks, 1, K - 1)
             /\ stream.data = pre.data
             /\ stream_position(stream, K - 1) = Was.start + Was.pos
        ELSE LET r == Redo(AsChunk(pre))
             IN  /\ Result(r) = res
                 /\ r.s = AsChunk(stream)
                 /\ ViewOf(Now) = ViewOf(Was)

\* A write through an IChunk is cut short by the limit, as on a Chunk.
C18_Witness ==
    /\ OnView("IChunk")
    /\ op.name = "write"
    /\ res.ok
    /\ 0 < res.v
    /\ res.v < Len(op.buf)
    /\ Now.pos = Was.pos + res.v
    /\ Was.pos > 0

\* C19: only read, seek and into_inner can be called on an OChunk, and no
\* call on it changes a byte of the underlying stream; only write, flush,
\* seek and into_inner can be called on an IChunk, and no call on it hands a
\* byte of the underlying stream to the caller.
C19_CapabilityRestriction ==
    /\ OnView("OChunk") =>
            /\ op.name \in {"read", "seek", "into_inner"}
            /\ stream.data = pre.data
    /\ OnView("IChunk") =>
            /\ op.name \in {"write", "flush", "seek", "into_inner"}
            /\ res.buf = op.buf

\* A read through an OChunk returns a byte written before the view was made.
C19_Witness ==
    /\ OnView("OChunk")
    /\ op.name = "read"
    /\ res.v > 0
    /\ res.buf[1] = WriteByte
    /\ stream.data = pre.data

\* ------------------------------------------- further claims on the window

\* C21: computing the window's end has no observable side effect: after
\* end_position returns successfully the underlying stream's position, the
\* chunk's pos, a parent chunk's pos and the bytes are what they were before
\* the call.
C21_EndPositionRestores ==
    (IsOp("end_position") /\ res.ok) => stream = pre

\* The end of a nested chunk is computed while the chunk, its parent and the
\* cursor are all away from position 0 and before the end.
C21_Witness ==
    /\ IsOp("end_position")
    /\ res.ok
    /\ K = 2
    /\ Was.pos > 0
    /\ pre.chunks[1].pos > 0
    /\ pre.cpos < Len(pre.data)
    /\ res.v > Was.pos
    /\ stream = pre

\* The last call asked to seek backward to a position before the window's
\* start: Current(-k) with k > pos, or End(-k) with k > end - start
BackwardPastStart ==
    /\ IsOp("seek")
    /\ op.off < 0
    /\ \/ op.whence = "Current" /\ -op.off > Was.pos
       \/ op.whence = "End" /\ -op.off > WinEnd(pre, K) - Was.start

\* C22: a seek backward past the window's start fails, also when the chunk
\* was created at an offset and the position asked for is a valid position
\* of the underlying stream; pos and the underlying position are unchanged.
C22_BackwardSeekRejected ==
    BackwardPastStart =>
        /\ ~res.ok
        /\ res.err = "InvalidInput"
        /\ stream = pre

\* A chunk created at an offset, its position moved, is asked to seek from
\* its current position to a position of the underlying stream before its
\* start.
C22_Witness ==
    /\ BackwardPastStart
    /\ op.whence = "Current"
    /\ Was.start > 0
    /\ Was.pos > 0
    /\ Target >= 0
    /\ Target < Was.start
    /\ ~res.ok
    /\ Now.pos = Was.pos

\* start + limit of the chunk the last call was made on does not fit u64
Overflows == Was.limit # None /\ Was.start + Was.limit[1] > U64_MAX

\* Stream state c with the limit of its outermost chunk taken away
Unlimited(c) == [c EXCEPT !.chunks[Len(c.chunks)].limit = None]

\* C23: when start + limit overflows u64 the window is unbounded, not in
\* error: end_position succeeds with the underlying length, and seek, read
\* and write return what they return on a chunk without limit and leave the
\* same pos, underlying position and bytes.
C23_OverflowIsUnbounded ==
    ((IsIo \/ IsOp("end_position")) /\ Overflows) =>
        LET r == Redo(Unlimited(pre))
        IN  /\ Result(r) = res
            /\ r.s = Unlimited(stream)
            /\ Now.limit = Was.limit
            /\ IsOp("end_position") => (res.ok /\ res.v = UnderLen(pre, K))

\* The end is computed for a chunk created at an offset with a limit below
\* u64::MAX that start + limit overflows, and it is the underlying length.
C23_Witness ==
    /\ IsOp("end_position")
    /\ Overflows
    /\ Was.limit[1] < U64_MAX
    /\ Len(pre.data) > 0
    /\ res.ok
    /\ res.v = Len(pre.data)

\* C24: an error the underlying stream reports to read, write or flush is
\* returned unchanged, after a single call of the underlying stream (no
\* retry), and pos is not advanced, at the chunk called and at its parent.
C24_ErrorsPropagate ==
    ((IsOp("read") \/ IsOp("write") \/ IsOp("flush")) /\ Failing(pre)) =>
        /\ ~res.ok
        /\ res.err = pre.fault
        /\ stream.fail_next = pre.fail_next - 1
        /\ stream.chunks = pre.chunks
        /\ stream.cpos = pre.cpos
        /\ stream.data = pre.data

\* A read through a nested chunk with bytes left to read meets a device
\* that fails once.
C24_Witness ==
    /\ IsOp("read")
    /\ K = 2
    /\ pre.fail_next = 1
    /\ Remaining(pre, K) > 0
    /\ Len(op.buf) > 0
    /\ ~res.ok
    /\ res.err = pre.fault
    /\ Now.pos = Was.pos
    /\ stream.fail_next = 0

\* C25: a chunk with limit Some(L) never has pos > L, whatever seeks, reads
\* and writes were made on it or through a chunk nested in it; so limit - pos
\* in remainder_len never underflows.
C25_PosWithinLimit ==
    \A j \in 1 .. Depth :
        stream.chunks[j].limit # None =>
            /\ stream.chunks[j].pos <= stream.chunks[j].limit[1]
            /\ checked_sub(stream.chunks[j].limit[1], stream.chunks[j].pos) # None

\* A write longer than the limit on a growable stream stops at pos = L.
C25_Witness ==
    /\ IsOp("write")
    /\ pre.kind = "growable"
    /\ Was.limit # None
    /\ Was.limit[1] > 0
    /\ Was.limit[1] < U64_MAX
    /\ Len(op.buf) > Was.limit[1] - Was.pos
    /\ Now.pos = Was.limit[1]
    /\ Now.pos > Was.pos

NoOpSeek == IsOp("seek") /\ op.whence = "Current" /\ op.off = 0

\* C26: a no-op seek always succeeds: in every reachable state of a chunk,
\* also one created on a stream positioned beyond its length,
\* seek(SeekFrom::Current(0)) returns Ok(pos), the value of
\* stream_position(), and changes nothing.
C26_NoOpSeekSucceeds ==
    NoOpSeek =>
        /\ res.ok
        /\ res.v = stream_position(pre, K)
        /\ stream = pre

\* What remains of C26 (not a claim): the no-op seek succeeds on every chunk
\* created within its stream.
C26_CreatedInside ==
    (NoOpSeek /\ CreatedInside(pre)) =>
        /\ res.ok
        /\ res.v = stream_position(pre, K)
        /\ stream = pre

\* ------------------------------------------ a further claim on the decoder

\* C27: a failed decode is not atomic: when a decode through a chunk fails
\* because only k bytes, 0 < k < size_of(type), remained, those k bytes are
\* consumed: pos is k further than before the call, at the window's end,
\* and so is the underlying stream.
C27_FailedDecodeConsumes ==
    (IsNum /\ K >= 1 /\ 0 < Len(Avail(pre))
           /\ Len(Avail(pre)) < size_of(op.ty)) =>
        /\ ~res.ok
        /\ res.err = "UnexpectedEof"
        /\ Now.pos = Was.pos + Len(Avail(pre))
        /\ Now.start + Now.pos = WinEnd(pre, K)
        /\ stream.cpos = pre.cpos + Len(Avail(pre))
        /\ stream.data = pre.data

\* A two-byte decode through a chunk with one byte left fails and leaves the
\* chunk one byte further.
C27_Witness ==
    /\ IsNum
    /\ K >= 1
    /\ size_of(op.ty) = 2
    /\ Len(Avail(pre)) = 1
    /\ ~res.ok
    /\ Now.pos = Was.pos + 1
    /\ Was.pos > 0

====
